---------------------------- MODULE Spec2Model ----------------------------
(***************************************************************************)
(* Engine communication and move-sweep orchestration of the chess UI:      *)
(* the useStockfish hook (one engine worker, getBestMove,                  *)
(* evaluateAllMoves with its inner evaluatePosition) and the App effect    *)
(* that starts a sweep followed by a best-move request on every position   *)
(* change.                                                                 *)
(*                                                                         *)
(* JavaScript runs one task at a time: a task (an effect, a UI event, a    *)
(* message event, a timer) runs together with the promise continuations    *)
(* it releases before the next task starts.  Every action below is one     *)
(* such task.  Scores are kept in hundredths of a pawn, so that the        *)
(* division by 100 of the source is exact on integers.                     *)
(***************************************************************************)
EXTENDS Integers, Sequences, FiniteSets, TLC

\* ------------------------------------------------------------- bounds
\* number of fn() invocations of the App effect (mounts plus position changes)
MaxRuns == 2
\* number of legal moves the rules collaborator enumerates for a position
MaxMoves == 2
\* score lines the engine prints for one search before its bestmove line
MaxInfo == 1

\* ---------------------------------------------------- program constants
\* default search depth of getBestMove and evaluateAllMoves
Depth == 25
\* the value a mate score is replaced by before the division
MateSentinel == 100000
\* divisor that turns centipawns into pawns
CpPerPawn == 100

\* ------------------------------------------------- the rules collaborator
\* A position is the sequence of move indices played from the position App
\* starts with; the collaborator is a black box, so only the shape of its
\* answers is modelled.
StartFen == << >>

\* enumeration of the start position (knight and bishop moves of the FEN in App)
StartMoves ==
  << [from |-> "f3", to |-> "e5", promotion |-> ""],
     [from |-> "f3", to |-> "g5", promotion |-> ""],
     [from |-> "c4", to |-> "f7", promotion |-> ""],
     [from |-> "c4", to |-> "d5", promotion |-> ""] >>

\* enumeration of a later position: a pawn that promotes is listed once per piece
LaterMoves ==
  << [from |-> "a7", to |-> "a8", promotion |-> "q"],
     [from |-> "a7", to |-> "a8", promotion |-> "r"],
     [from |-> "g1", to |-> "h1", promotion |-> ""],
     [from |-> "a7", to |-> "a8", promotion |-> "b"] >>

\* the squares a move of these enumerations starts from: the keys of the tables
Origins == {"f3", "c4", "a7", "g1"}

Min(a, b) == IF a < b THEN a ELSE b

\* chess.moves({ verbose: true }); positions differ in the number of their legal
\* moves: the position after the second move of the start position has one less
LegalMoves(fen) ==
  LET all == IF Len(fen) = 0 THEN StartMoves ELSE LaterMoves
      n == Min(MaxMoves, Len(all))
  IN  SubSeq(all, 1, IF fen # << >> /\ Head(fen) = 2 THEN n - 1 ELSE n)

\* index of the move chess.move({from, to, promotion}) plays, 0 when it is rejected
MoveIndex(fen, from, to, promotion) ==
  LET ms == LegalMoves(fen)
      ok == { k \in 1..Len(ms) : /\ ms[k].from = from
                                 /\ ms[k].to = to
                                 /\ (ms[k].promotion = "" \/ ms[k].promotion = promotion) }
  IN  IF ok = {} THEN 0 ELSE CHOOSE k \in ok : \A j \in ok : k <= j

\* gameCopy.move(...) followed by gameCopy.fen(): the resulting position, or the
\* failure marker <<0>>
ApplyMove(fen, from, to, promotion) ==
  LET k == MoveIndex(fen, from, to, promotion)
  IN  IF k = 0 THEN << 0 >> ELSE Append(fen, k)

\* the side to move in a position: White in the starting position of the page,
\* and each move played passes the turn
SideToMove(fen) == IF Len(fen) % 2 = 0 THEN "w" ELSE "b"

\* ------------------------------------------------------------- the state
VARIABLES
  engineRef,        \* engineRef.current: the worker's number, 0 for null
  terminated,       \* per worker created so far, how often terminate() was called on it
  listeners,        \* registered "message" listeners, in registration order
  inbox,            \* commands posted to the live worker, not yet read by it
  enginePos,        \* the position the engine was last given
  search,           \* the engine's running search
  outbox,           \* the line the engine posted that is not yet dispatched; the
                    \* engine posts its next line after that (a line posted earlier
                    \* reaches the page exactly as one posted later would)
  chessGame,        \* chessGameRef.current, as the position it holds
  moveEvaluations,  \* the React state of that name
  moveableSquares,  \* the React state of that name
  runs              \* one record per fn() invocation of the App effect

vars == << engineRef, terminated, listeners, inbox, enginePos, search,
           outbox, chessGame, moveEvaluations, moveableSquares, runs >>

NoReq == << 0, 0 >>
NoMove == << "", "" >>
NoLine == [kind |-> "none", type |-> "", val |-> 0, move |-> NoMove, req |-> NoReq]
NoSearch == [active |-> FALSE, req |-> NoReq, fen |-> StartFen, infos |-> 0]
\* a Record<Square, ...> without keys: an absent key reads as the empty list
EmptyTable == [s \in Origins |-> << >>]

\* the (type, value) pairs of the score lines the engine may print
ScoreLines == { << "cp", 120 >>, << "mate", 0 - 3 >>, << "mate", 2 >> }

Cmd(c, fen, depth, req) == [cmd |-> c, fen |-> fen, depth |-> depth, req |-> req]

\* a request that starts the search before it sets the position
Triple_GoFirst(fen, req) ==
  << Cmd("go", StartFen, Depth, req),
     Cmd("ucinewgame", StartFen, 0, NoReq),
     Cmd("position", fen, 0, NoReq) >>

\* the three postMessage calls of a request
Triple(fen, req) ==
  << Cmd("ucinewgame", StartFen, 0, NoReq),
     Cmd("position", fen, 0, NoReq),
     Cmd("go", StartFen, Depth, req) >>

\* the request of run r at step s: 0 the baseline, k the k-th move, n+1 getBestMove
Req(r, s) == << r, s >>

Listener(worker, r, s, kind) == [worker |-> worker, run |-> r, step |-> s, kind |-> kind]

RECURSIVE Without(_, _)
\* removeEventListener: the list without the given listener
Without(ls, l) ==
  IF ls = << >> THEN << >>
  ELSE IF Head(ls) = l THEN Without(Tail(ls), l)
       ELSE << Head(ls) >> \o Without(Tail(ls), l)

\* ------------------------------------------------------ score extraction
\* data.match(/score (cp|mate) (-?\d+)/)
MatchesScore(line) == line.kind = "info" /\ line.type \in {"cp", "mate"}

\* data.startsWith("bestmove")
IsBestmove(line) == line.kind = "bestmove"

\* a score extraction that keeps the mate distance
ParsedScore_MateDistance(type, val) == (val * 100) \div CpPerPawn

\* parseInt, the mate replacement and the division by 100, in hundredths of a pawn:
\* a value of v centipawns is v / 100 pawns, that is v hundredths
ParsedScore(type, val) ==
  LET raw == IF type = "mate"
             THEN (IF val > 0 THEN MateSentinel ELSE 0 - MateSentinel)
             ELSE val
  IN  (raw * 100) \div CpPerPawn

\* the value the evaluation resolves with: resolve(-score)
ResolvedScore(type, val) == 0 - ParsedScore(type, val)

\* ------------------------------------------------------------ the hook
\* The part of the state a task of the page can change, as one record.
World == [engineRef |-> engineRef, listeners |-> listeners, inbox |-> inbox,
          moveEvaluations |-> moveEvaluations, runs |-> runs]

\* a run of fn() that has just called evaluateAllMoves(chessGame.fen())
NewRun(fen) ==
  [fen |-> fen, pc |-> "start", i |-> 0, initialScore |-> 0,
   results |-> EmptyTable, engine |-> 0, resolved |-> FALSE, timer |-> FALSE,
   armed |-> 0,             \* the place of the timer among the armed timers, oldest first
   bestMove |-> NoMove,
   \* history of the run, read by the properties only
   skipped |-> {},          \* moves the loop went past without an entry
   line |-> NoLine,         \* the line that settled the last request, if a line did
   lineFor |-> 0,           \* the step of that request
   value |-> 0,             \* the value the last evaluation resolved with
   cause |-> "",            \* why fn() rejected
   nullEngine |-> FALSE,    \* an evaluation was attempted with engineRef null
   evals |-> 0,             \* how often evaluatePosition was called
   returned |-> FALSE]      \* evaluateAllMoves returned its table

\* setTimeout with the delay every evaluation uses: the new timer is due after
\* all the timers that are armed
SetTimer(w, r) ==
  LET others == { q \in 1..Len(w.runs) : q # r /\ w.runs[q].timer }
  IN  [w EXCEPT !.runs[r].timer = TRUE,
                !.runs[r].armed = Cardinality(others) + 1]

RECURSIVE MoveUp(_, _)
\* the runs, with the timers due after the given place moved up by one
MoveUp(rs, place) ==
  IF rs = << >> THEN << >>
  ELSE << IF Head(rs).armed > place THEN [Head(rs) EXCEPT !.armed = @ - 1]
          ELSE Head(rs) >> \o MoveUp(Tail(rs), place)

\* clearTimeout, or the timer having fired: the timers due after it move up
ClearTimer(w, r) ==
  LET place == w.runs[r].armed
      rs == IF place = 0 THEN w.runs ELSE MoveUp(w.runs, place)
  IN  [w EXCEPT !.runs = [rs EXCEPT ![r].timer = FALSE, ![r].armed = 0]]

\* evaluatePosition with a worker behind engineRef: the timer, the listener and
\* the three commands
evaluatePosition(w, r, fenToEval, s) ==
  [SetTimer(w, r) EXCEPT !.listeners = Append(@, Listener(w.engineRef, r, s, "eval")),
            !.inbox = @ \o Triple(fenToEval, Req(r, s)),
            !.runs[r].engine = w.engineRef,
            !.runs[r].resolved = FALSE,
            !.runs[r].i = s,
            !.runs[r].pc = IF s = 0 THEN "baseline" ELSE "move",
            !.runs[r].evals = @ + 1]

\* getBestMove: throws inside the promise when engineRef is null, otherwise the
\* listener and the three commands; fn awaits it after setMoveEvaluations
getBestMove(w, r) ==
  LET n == Len(LegalMoves(w.runs[r].fen))
  IN  IF w.engineRef = 0
      THEN [w EXCEPT !.runs[r].pc = "failed", !.runs[r].cause = "unavailable"]
      ELSE [w EXCEPT !.listeners = Append(@, Listener(w.engineRef, r, n + 1, "best")),
                     !.inbox = @ \o Triple(w.runs[r].fen, Req(r, n + 1)),
                     !.runs[r].i = n + 1,
                     !.runs[r].pc = "best"]

\* the end of evaluateAllMoves and the rest of fn: the table is returned, stored
\* with setMoveEvaluations, and the best move is requested
ReturnTable(w, r) ==
  getBestMove([w EXCEPT !.moveEvaluations = w.runs[r].results,
                        !.runs[r].returned = TRUE], r)

RECURSIVE SweepFrom_Stalls(_, _, _)
\* a loop whose evaluation on a null engine neither resolves nor rejects
SweepFrom_Stalls(w, r, k) ==
  LET fen == w.runs[r].fen
      moves == LegalMoves(fen)
  IN  IF k > Len(moves) THEN ReturnTable(w, r)
      ELSE LET newFen == ApplyMove(fen, moves[k].from, moves[k].to, "q")
           IN  IF newFen = << 0 >>
               THEN SweepFrom_Stalls([w EXCEPT !.runs[r].skipped = @ \cup {k}], r, k + 1)
               ELSE IF w.engineRef = 0
                    THEN [w EXCEPT !.runs[r].i = k,
                                   !.runs[r].pc = "move",
                                   !.runs[r].nullEngine = TRUE,
                                   !.runs[r].evals = @ + 1]
                    ELSE evaluatePosition(w, r, newFen, k)

RECURSIVE SweepFrom(_, _, _)
\* the for loop of evaluateAllMoves from the k-th enumerated move on, up to the
\* next await that has to wait for the engine or a timer
SweepFrom(w, r, k) ==
  LET fen == w.runs[r].fen
      moves == LegalMoves(fen)
  IN  IF k > Len(moves) THEN ReturnTable(w, r)
      ELSE LET newFen == ApplyMove(fen, moves[k].from, moves[k].to, "q")
           IN  IF newFen = << 0 >>
               THEN SweepFrom([w EXCEPT !.runs[r].skipped = @ \cup {k}], r, k + 1)
               ELSE IF w.engineRef = 0
                    \* engine is null: addEventListener throws, the promise is
                    \* rejected and the catch block skips the move (the timer set
                    \* just before stays armed; its callback throws on the null
                    \* engine before it can reject, and changes nothing)
                    THEN SweepFrom([w EXCEPT !.runs[r].skipped = @ \cup {k},
                                             !.runs[r].nullEngine = TRUE,
                                             !.runs[r].evals = @ + 1], r, k + 1)
                    ELSE evaluatePosition(w, r, newFen, k)

\* a sweep that stores the score of the resulting position itself
PushResult_Absolute(run, k, newScore) ==
  LET m == LegalMoves(run.fen)[k]
  IN  [run EXCEPT !.results[m.from] = Append(@, [square |-> m.to, score |-> newScore])]

\* results[from].push({ square: to, score: newScore - initialScore })
PushResult(run, k, newScore) ==
  LET m == LegalMoves(run.fen)[k]
  IN  [run EXCEPT !.results[m.from] =
         Append(@, [square |-> m.to, score |-> newScore - run.initialScore])]

\* the continuation of evaluateAllMoves after its pending evaluatePosition resolved
Resolved(w, r, value) ==
  IF w.runs[r].pc = "baseline"
  THEN SweepFrom([w EXCEPT !.runs[r].initialScore = value,
                           !.runs[r].value = value], r, 1)
  ELSE SweepFrom([w EXCEPT !.runs[r] = PushResult([@ EXCEPT !.value = value],
                                                  w.runs[r].i, value)],
                 r, w.runs[r].i + 1)

\* a catch block that stores the score 0 for the move it could not evaluate
Rejected_StoresZero(w, r, why) ==
  IF w.runs[r].pc = "baseline"
  THEN [w EXCEPT !.runs[r].pc = "failed", !.runs[r].cause = why]
  ELSE SweepFrom([w EXCEPT !.runs[r] =
                     PushResult([@ EXCEPT !.skipped = @ \cup {w.runs[r].i}],
                                w.runs[r].i, 0)],
                 r, w.runs[r].i + 1)

\* the continuation after its pending evaluatePosition rejected: the baseline is
\* awaited outside the try block, a move inside it
Rejected(w, r, why) ==
  IF w.runs[r].pc = "baseline"
  THEN [w EXCEPT !.runs[r].pc = "failed", !.runs[r].cause = why]
  ELSE SweepFrom([w EXCEPT !.runs[r].skipped = @ \cup {w.runs[r].i}],
                 r, w.runs[r].i + 1)

\* evaluateAllMoves(fen) up to its first await
evaluateAllMoves(w, r) ==
  IF w.engineRef = 0
  THEN [w EXCEPT !.runs[r].pc = "failed", !.runs[r].cause = "unavailable"]
  ELSE evaluatePosition(w, r, w.runs[r].fen, 0)

\* fn() of the App effect for the position fen
StartRun(w, fen) ==
  LET r == Len(w.runs) + 1
  IN  evaluateAllMoves([w EXCEPT !.runs = Append(@, NewRun(fen))], r)

\* an onMessage that fails the evaluation on a bestmove line without a score
onMessage_BestmoveRejects(w, l, line) ==
  LET r == l.run
      run == w.runs[r]
      settled == [ClearTimer(w, r) EXCEPT
                           !.listeners = Without(@, Listener(run.engine, r, l.step, "eval")),
                           !.runs[r].resolved = TRUE,
                           !.runs[r].line = [line EXCEPT !.move = NoMove],
                           !.runs[r].lineFor = l.step]
  IN  IF MatchesScore(line) /\ ~run.resolved
      THEN Resolved(settled, r, ResolvedScore(line.type, line.val))
      ELSE IF IsBestmove(line) /\ ~run.resolved
           THEN Rejected(settled, r, "noscore")
           ELSE w

\* onMessage of evaluatePosition, called with one line
onMessage(w, l, line) ==
  LET r == l.run
      run == w.runs[r]
      settled == [ClearTimer(w, r) EXCEPT
                           !.listeners = Without(@, Listener(run.engine, r, l.step, "eval")),
                           !.runs[r].resolved = TRUE,
                           !.runs[r].line = [line EXCEPT !.move = NoMove],
                           !.runs[r].lineFor = l.step]
  IN  IF MatchesScore(line) /\ ~run.resolved
      THEN Resolved(settled, r, ResolvedScore(line.type, line.val))
      ELSE IF IsBestmove(line) /\ ~run.resolved
           THEN Resolved(settled, r, 0)
           ELSE w

\* a handleMessage that resolves and leaves its listener registered
handleMessage_KeepsListener(w, l, line) ==
  IF IsBestmove(line)
  THEN [w EXCEPT !.runs[l.run].bestMove = line.move,
                 !.runs[l.run].line = line,
                 !.runs[l.run].lineFor = l.step,
                 !.runs[l.run].pc = "done"]
  ELSE w

\* handleMessage of getBestMove, called with one line
handleMessage(w, l, line) ==
  IF IsBestmove(line)
  THEN [w EXCEPT !.listeners = IF w.engineRef = 0 THEN @
                               ELSE Without(@, Listener(w.engineRef, l.run, l.step, "best")),
                 !.runs[l.run].bestMove = line.move,
                 !.runs[l.run].line = line,
                 !.runs[l.run].lineFor = l.step,
                 !.runs[l.run].pc = "done"]
  ELSE w

RECURSIVE Dispatch(_, _, _)
\* the message event of one line: the listeners registered on the worker when the
\* dispatch starts are called in registration order, a listener removed meanwhile
\* is not called, and the continuations a listener releases run before the next one
Dispatch(w, ls, line) ==
  IF ls = << >> THEN w
  ELSE LET l == Head(ls)
           registered == \E j \in 1..Len(w.listeners) : w.listeners[j] = l
           w1 == IF ~registered THEN w
                 ELSE IF l.kind = "eval" THEN onMessage(w, l, line)
                      ELSE handleMessage(w, l, line)
       IN  Dispatch(w1, Tail(ls), line)

\* the listeners registered on a worker
ListenersOn(ls, worker) == SelectSeq(ls, LAMBDA l : l.worker = worker)

\* a timer callback that removes the listener and forgets to reject
timeout_NoReject(w, r) ==
  [ClearTimer(w, r) EXCEPT
            !.listeners = Without(@, Listener(w.runs[r].engine, r, w.runs[r].i, "eval")),
            !.runs[r].resolved = TRUE]

\* the callback of setTimeout in evaluatePosition
timeout(w, r) ==
  LET run == w.runs[r]
  IN  IF ~run.resolved
      THEN Rejected([ClearTimer(w, r) EXCEPT
                              !.listeners = Without(@, Listener(run.engine, r, run.i, "eval")),
                              !.runs[r].resolved = TRUE,
                              !.runs[r].line = NoLine,
                              !.runs[r].lineFor = run.i], r, "timeout")
      ELSE ClearTimer(w, r)

\* the primed page state is the world a task leaves behind
Becomes(w) ==
  /\ engineRef' = w.engineRef
  /\ listeners' = w.listeners
  /\ inbox' = w.inbox
  /\ moveEvaluations' = w.moveEvaluations
  /\ runs' = w.runs

RECURSIVE GroupByFrom(_, _)
\* the loop of the App effect over chessGame.moves({ verbose: true })
GroupByFrom(moves, acc) ==
  IF moves = << >> THEN acc
  ELSE GroupByFrom(Tail(moves),
                   [acc EXCEPT ![Head(moves).from] = Append(@, Head(moves).to)])

\* currentPlayerMovableSquares of the App effect
MovableSquares(fen) == GroupByFrom(LegalMoves(fen), EmptyTable)

\* ------------------------------------------------------------- actions
Init ==
  /\ engineRef = 0
  /\ terminated = << >>
  /\ listeners = << >>
  /\ inbox = << >>
  /\ enginePos = StartFen
  /\ search = NoSearch
  /\ outbox = << >>
  /\ chessGame = StartFen
  /\ moveEvaluations = EmptyTable
  /\ moveableSquares = EmptyTable
  /\ runs = << >>

\* The effects are set up: the effect of useStockfish creates the worker and posts
\* "uci", then the effect of App calls fn() for the current position.
Mount ==
  /\ engineRef = 0
  /\ Len(runs) < MaxRuns
  /\ terminated' = Append(terminated, 0)
  /\ enginePos' = StartFen
  /\ search' = NoSearch
  /\ outbox' = << >>
  /\ Becomes(StartRun([World EXCEPT !.engineRef = Len(terminated) + 1,
                                    !.inbox = << Cmd("uci", StartFen, 0, NoReq) >>],
                      chessGame))
  /\ moveableSquares' = MovableSquares(chessGame)
  /\ UNCHANGED chessGame

\* a cleanup that terminates the worker and keeps the reference to it
Teardown_KeepsRef ==
  /\ IF engineRef # 0
     THEN /\ terminated' = [terminated EXCEPT ![engineRef] = @ + 1]
          /\ inbox' = << >>
          /\ outbox' = << >>
          /\ search' = NoSearch
          /\ enginePos' = StartFen
          /\ UNCHANGED engineRef
     ELSE UNCHANGED << terminated, engineRef, inbox, outbox, search, enginePos >>
  /\ UNCHANGED << listeners, chessGame, moveEvaluations, moveableSquares, runs >>

\* The cleanup of the effect of useStockfish.
Teardown ==
  /\ IF engineRef # 0
     THEN /\ terminated' = [terminated EXCEPT ![engineRef] = @ + 1]
          /\ engineRef' = 0
          /\ inbox' = << >>
          /\ outbox' = << >>
          /\ search' = NoSearch
          /\ enginePos' = StartFen
     ELSE UNCHANGED << terminated, engineRef, inbox, outbox, search, enginePos >>
  /\ UNCHANGED << listeners, chessGame, moveEvaluations, moveableSquares, runs >>

\* onPieceDrop, and for a legal move the effect of App the new position triggers.
OnPieceDrop(sourceSquare, targetSquare) ==
  /\ Len(runs) < MaxRuns
  /\ LET newFen == IF targetSquare = "" THEN << 0 >>
                   ELSE ApplyMove(chessGame, sourceSquare, targetSquare, "q")
     IN  IF newFen = << 0 >>
         THEN UNCHANGED << chessGame, engineRef, listeners, inbox, moveEvaluations,
                           moveableSquares, runs >>
         ELSE /\ chessGame' = newFen
              /\ Becomes(StartRun(World, newFen))
              /\ moveableSquares' = MovableSquares(newFen)
  /\ UNCHANGED << terminated, enginePos, search, outbox >>

RECURSIVE ReadUpTo(_, _)
\* The worker's handling of the commands at the head of its queue, up to and
\* with the first one that makes it print ("uci") or search ("go"): the state
\* [inbox, enginePos, last] after them.  "ucinewgame" and "position" only set
\* engine state, which nothing reads before the next "go".
ReadUpTo(cmds, pos) ==
  IF cmds = << >> THEN [inbox |-> cmds, enginePos |-> pos, last |-> Cmd("", StartFen, 0, NoReq)]
  ELSE LET c == Head(cmds)
       IN  IF c.cmd \in {"uci", "go"}
           THEN [inbox |-> Tail(cmds), enginePos |-> pos, last |-> c]
           ELSE ReadUpTo(Tail(cmds), IF c.cmd = "position" THEN c.fen ELSE pos)

\* The worker reads its queue; it reads nothing while it is searching.
EngineRead ==
  /\ engineRef # 0
  /\ inbox # << >>
  /\ ~search.active
  /\ outbox = << >>
  /\ LET e == ReadUpTo(inbox, enginePos)
     IN  /\ inbox' = e.inbox
         /\ enginePos' = e.enginePos
         /\ outbox' = IF e.last.cmd = "uci"
                      THEN << [NoLine EXCEPT !.kind = "other"] >>
                      ELSE outbox
         /\ search' = IF e.last.cmd = "go"
                      THEN [active |-> TRUE, req |-> e.last.req, fen |-> e.enginePos,
                            infos |-> 0]
                      ELSE search
  /\ UNCHANGED << engineRef, terminated, listeners, chessGame, moveEvaluations,
                  moveableSquares, runs >>

\* The searching worker prints an info line that carries a score.
EngineInfo(type, val) ==
  /\ search.active
  /\ search.infos < MaxInfo
  /\ outbox = << >>
  /\ outbox' = Append(outbox, [kind |-> "info", type |-> type, val |-> val,
                               move |-> NoMove, req |-> search.req])
  /\ search' = [search EXCEPT !.infos = @ + 1]
  /\ UNCHANGED << engineRef, terminated, listeners, inbox, enginePos, chessGame,
                  moveEvaluations, moveableSquares, runs >>

\* The worker ends its search with the bestmove line.
EngineBestmove(k) ==
  /\ search.active
  /\ outbox = << >>
  /\ k \in 1..Len(LegalMoves(search.fen))
  /\ LET m == LegalMoves(search.fen)[k]
     IN  outbox' = Append(outbox, [kind |-> "bestmove", type |-> "", val |-> 0,
                                   move |-> << m.from, m.to >>, req |-> search.req])
  /\ search' = NoSearch
  /\ UNCHANGED << engineRef, terminated, listeners, inbox, enginePos, chessGame,
                  moveEvaluations, moveableSquares, runs >>

\* The message event of the oldest posted line.
Deliver ==
  /\ engineRef # 0
  /\ outbox # << >>
  /\ Becomes(Dispatch(World, ListenersOn(listeners, engineRef), Head(outbox)))
  /\ outbox' = Tail(outbox)
  /\ UNCHANGED << terminated, enginePos, search, chessGame, moveableSquares >>

\* The 30 second timer of the evaluation run r waits for fires: timers of the
\* same delay fire in the order they were set.
Timeout(r) ==
  /\ r \in 1..Len(runs)
  /\ runs[r].timer
  /\ runs[r].armed = 1
  /\ Becomes(timeout(World, r))
  /\ UNCHANGED << terminated, enginePos, search, outbox, chessGame, moveableSquares >>

Next ==
  \/ Mount
  \/ Teardown
  \/ \E s \in {"f3", "a7", "e5"}, t \in {"e5", "g5", "a8", ""} : OnPieceDrop(s, t)
  \/ EngineRead
  \/ \E sl \in ScoreLines : EngineInfo(sl[1], sl[2])
  \/ \E k \in 1..MaxMoves : EngineBestmove(k)
  \/ Deliver
  \/ \E r \in 1..MaxRuns : Timeout(r)

Spec == Init /\ [][Next]_vars

\* One fn() invocation: the effect of App runs once and the position stays.
FirstMount == runs = << >> /\ Mount

SweepNext ==
  \/ FirstMount
  \/ Teardown
  \/ EngineRead
  \/ \E sl \in ScoreLines : EngineInfo(sl[1], sl[2])
  \/ \E k \in 1..MaxMoves : EngineBestmove(k)
  \/ Deliver
  \/ Timeout(1)

SweepSpec == Init /\ [][SweepNext]_vars

\* A timer that is armed fires: setTimeout runs its callback once the delay is over.
LiveSweepSpec == SweepSpec /\ WF_vars(Timeout(1))

\* ---------------------------------------------------------- properties
\* a value in pawns, in the unit of the model
Pawns(p) == p * 100

Runs == 1..Len(runs)

\* the number of moves enumerated for the position of run r
NumMoves(r) == Len(LegalMoves(runs[r].fen))

\* searches asked of the engine whose bestmove line it has not printed yet
GoPending ==
  Len(SelectSeq(inbox, LAMBDA c : c.cmd = "go")) + (IF search.active THEN 1 ELSE 0)

\* C1: at most one search is outstanding at the engine; no further triple is
\* sent before the engine has printed the bestmove line of the search in progress.
C1_OneSearchOutstanding == GoPending <= 1

\* C2: the line an evaluation resolves with was printed by the search of its
\* own request, never by an earlier search.
C2_OwnSearchOnly ==
  \A r \in Runs :
    (runs[r].line.kind \in {"info", "bestmove"} /\ runs[r].lineFor <= NumMoves(r))
      => runs[r].line.req = Req(r, runs[r].lineFor)

\* the entries of a table as (origin, position in the origin's list) pairs
EntriesOf(table) == { e \in Origins \X (1..MaxMoves) : e[2] <= Len(table[e[1]]) }

\* the greatest score of a table that has an entry
MaxScore(table) ==
  LET es == EntriesOf(table)
  IN  LET e == CHOOSE x \in es :
                 \A y \in es : table[y[1]][y[2]].score <= table[x[1]][x[2]].score
      IN  table[e[1]][e[2]].score

\* C3: once fn() has the engine's best move, an entry of the returned table for
\* that move has the score (maximum score of the table) + 0.10.
C3_BestMoveBoosted ==
  \A r \in Runs :
    runs[r].pc = "done" =>
      \A e \in EntriesOf(runs[r].results) :
        (e[1] = runs[r].bestMove[1]
           /\ runs[r].results[e[1]][e[2]].square = runs[r].bestMove[2])
          => runs[r].results[e[1]][e[2]].score = MaxScore(runs[r].results) + 10

\* C4: a timeout of a search of the sweep never makes the call fail; only an
\* unavailable engine does.
C4_TimeoutNeverFails ==
  \A r \in Runs :
    runs[r].pc = "failed" =>
      (runs[r].cause = "unavailable" \/ terminated[runs[r].engine] > 0)

\* C6: no two listeners are registered on the message stream of a worker at
\* the same time.
C6_OneListener ==
  \A wk \in 1..Len(terminated) : Len(ListenersOn(listeners, wk)) <= 1

\* C10: an evaluation attempted while the engine is unavailable fails the call;
\* the sweep never returns a table after it.
C10_UnavailableSurfaces ==
  \A r \in Runs : ~(runs[r].nullEngine /\ runs[r].returned)

\* the destinations the table of run r must list under origin o: those of the
\* enumerated moves from o that were not skipped, in enumeration order
ExpectedSquares(r, o) ==
  LET moves == LegalMoves(runs[r].fen)
      kept == SelectSeq([k \in 1..Len(moves) |-> k],
                        LAMBDA k : moves[k].from = o /\ k \notin runs[r].skipped)
  IN  [j \in 1..Len(kept) |-> moves[kept[j]].to]

\* the destinations a table lists under origin o
ListedSquares(table, o) == [j \in 1..Len(table[o]) |-> table[o][j].square]

\* C7: the returned table has entries exactly for the enumerated moves that were
\* applied and whose evaluation resolved with a value, per origin in enumeration
\* order; a move whose evaluation timed out or failed has none.
C7_TableIsValuedMoves ==
  \A r \in Runs :
    runs[r].returned =>
      \A o \in Origins : ListedSquares(runs[r].results, o) = ExpectedSquares(r, o)

\* a sweep returned a table with an entry after skipping a move
C7_Witness ==
  \E r \in Runs :
    /\ runs[r].returned
    /\ runs[r].skipped # {}
    /\ \E o \in Origins : runs[r].results[o] # << >>

\* run r has just had an evaluation settled by a score line of the given type
SettledOn(r, type) == runs[r].line.kind = "info" /\ runs[r].line.type = type

\* C8 as amended: a mate score saturates, whatever the mate distance, to 1000
\* pawns (100000 centipawns divided by 100): "score mate n" with n <= 0 gives the
\* score -1000 and n > 0 gives +1000, and the evaluation resolves with its negation.
C8_MateSaturates ==
  \A r \in Runs :
    SettledOn(r, "mate") =>
      0 - runs[r].value = (IF runs[r].line.val > 0 THEN Pawns(1000) ELSE 0 - Pawns(1000))

\* the evaluation of a candidate move resolved on "score mate -3"
C8_Witness ==
  \E r \in Runs : SettledOn(r, "mate") /\ runs[r].line.val = 0 - 3 /\ runs[r].lineFor > 0

\* C8 as stated: a mate score saturates to magnitude 100000 in pawns:
\* "score mate -3" gives -100000 and n > 0 gives +100000 (before the negation).
C8_MateSentinelInPawns ==
  \A r \in Runs :
    SettledOn(r, "mate") =>
      0 - runs[r].value = (IF runs[r].line.val > 0 THEN Pawns(100000)
                                                    ELSE 0 - Pawns(100000))

\* the entry pushed for the move of step k of run r: the last one under its origin
LastEntry(r, k) ==
  LET list == runs[r].results[LegalMoves(runs[r].fen)[k].from]
  IN  list[Len(list)]

\* C9: an evaluation of a candidate move that resolves on "score cp c" has the
\* outcome -(c/100), and the entry stored for the move is -(c/100) - S0, S0 being
\* the outcome of the baseline evaluation of the same sweep.
C9_DifferentialEntry ==
  \A r \in Runs :
    (SettledOn(r, "cp") /\ runs[r].lineFor > 0) =>
      /\ runs[r].value = 0 - runs[r].line.val    \* c/100 pawns is c hundredths
      /\ LastEntry(r, runs[r].lineFor).score
           = runs[r].value - runs[r].initialScore

\* a candidate move settled on "score cp 120" after a baseline that is not 0
C9_Witness ==
  \E r \in Runs :
    /\ SettledOn(r, "cp") /\ runs[r].lineFor > 0 /\ runs[r].line.val = 120
    /\ runs[r].initialScore # 0
    /\ LastEntry(r, runs[r].lineFor).score = (0 - 120) - runs[r].initialScore

\* run r awaits the evaluation of step s (0 the baseline, k the k-th move)
Awaits(r, s) ==
  r <= Len(runs) /\ runs[r].pc \in {"baseline", "move"} /\ runs[r].i = s

\* the evaluation of step s of run r ended with the timed-out outcome: the
\* baseline rejects the call with the timeout error, a move is skipped
TimedOutAt(r, s) ==
  /\ runs[r].line = NoLine
  /\ IF s = 0 THEN runs[r].pc = "failed" /\ runs[r].cause = "timeout"
              ELSE s \in runs[r].skipped

\* the evaluation of step s of run r has settled, and with the timed-out outcome
\* if no line of the engine settled it
SettledAt(r, s) ==
  /\ r <= Len(runs)
  /\ ~Awaits(r, s)
  /\ runs[r].lineFor = s
  /\ (runs[r].line # NoLine \/ TimedOutAt(r, s))

\* C5: an evaluation does not stay pending forever: once the timer has fired it
\* has settled, and when no line of the engine settled it, it has settled with the
\* timed-out outcome (every evaluation of the call, which is run 1).
C5_SettlesByDeadline == \A s \in 0..MaxMoves : Awaits(1, s) ~> SettledAt(1, s)

\* the evaluation of a candidate move timed out on a live, silent engine
C5_Witness ==
  \E r \in Runs :
    /\ runs[r].lineFor >= 1
    /\ TimedOutAt(r, runs[r].lineFor)
    /\ ~runs[r].nullEngine
    /\ engineRef # 0

\* C11: the cleanup is idempotent: whenever it runs, also twice in a row or
\* before any worker exists, it leaves engineRef empty and no worker has been
\* terminated more than once.
C11_TeardownIdempotent ==
  [][Teardown => (engineRef' = 0 /\ \A wk \in 1..Len(terminated') : terminated'[wk] <= 1)]_vars

\* the cleanup has terminated a worker, and a further cleanup finds engineRef empty
C11_Witness ==
  engineRef = 0 /\ terminated # << >> /\ \A wk \in 1..Len(terminated) : terminated[wk] = 1

\* the listeners the evaluations of run r have registered and not removed
EvalListeners(r) == SelectSeq(listeners, LAMBDA l : l.run = r /\ l.kind = "eval")

\* the steps of run r whose go command has been sent and not yet answered in full
StepsAtEngine(r) ==
  { inbox[j].req[2] : j \in { j \in 1..Len(inbox) : inbox[j].cmd = "go" /\ inbox[j].req[1] = r } }
    \cup (IF search.active /\ search.req[1] = r THEN { search.req[2] } ELSE {})

\* C12: the evaluations of one evaluateAllMoves call are strictly sequential: a
\* go is always the third command of ucinewgame, position, go; no command of a
\* step later than the current one has been sent; the only listener of the call
\* is the one of the current step, whose evaluation is unsettled; and the
\* commands of the current step are sent with its listener installed.
C12_Sequential ==
  /\ \A j \in 1..Len(inbox) :
       inbox[j].cmd = "go" =>
         j >= 3 /\ inbox[j - 1].cmd = "position" /\ inbox[j - 2].cmd = "ucinewgame"
  /\ \A r \in Runs :
       /\ \A s \in StepsAtEngine(r) : s <= runs[r].i
       /\ Len(EvalListeners(r)) <= 1
       /\ \A k \in 1..Len(EvalListeners(r)) :
            EvalListeners(r)[k].step = runs[r].i /\ Awaits(r, runs[r].i)
       /\ Awaits(r, runs[r].i) =>
            EvalListeners(r) = << Listener(runs[r].engine, r, runs[r].i, "eval") >>

\* the second move is being evaluated: its commands are at the engine and its
\* listener is the only one of the call
C12_Witness ==
  /\ Awaits(1, 2)
  /\ 2 \in StepsAtEngine(1)
  /\ EvalListeners(1) = << Listener(runs[1].engine, 1, 2, "eval") >>

\* the moves of a run whose evaluation has an outcome
SettledMoves(run) ==
  IF run.pc = "move" THEN run.i - 1
  ELSE IF run.returned THEN Len(LegalMoves(run.fen))
       ELSE 0

\* list a is the beginning of list b
IsPrefix(a, b) == Len(a) <= Len(b) /\ SubSeq(b, 1, Len(a)) = a

\* from run state a to run state b no settled evaluation gets a second outcome
SettlesOnce(a, b) ==
  /\ b.i >= a.i
  /\ a.pc \in {"failed", "done"} => b = a
  /\ a.pc # "baseline" => b.initialScore = a.initialScore
  /\ a.skipped \subseteq b.skipped
  /\ \A s \in b.skipped \ a.skipped : s >= a.i /\ (s = a.i => a.pc = "move")
  /\ \A o \in Origins : IsPrefix(a.results[o], b.results[o])
  /\ Cardinality(EntriesOf(b.results)) - Cardinality(EntriesOf(a.results))
       <= (IF a.pc = "move" THEN 1 ELSE 0)
  /\ a.returned => b.results = a.results /\ b.skipped = a.skipped

\* Each evaluation has one outcome: a step of the page never changes the outcome
\* of an evaluation that has settled (the baseline score, the entry of a move, a
\* move being skipped), every evaluated or skipped move has exactly one outcome,
\* and the timer is armed only while the evaluation waits.
OutcomeDecidedOnce ==
  [][\A r \in Runs :
       /\ SettlesOnce(runs[r], runs'[r])
       /\ Cardinality(EntriesOf(runs'[r].results)) + Cardinality(runs'[r].skipped)
            = SettledMoves(runs'[r])
       /\ runs'[r].timer =>
            runs'[r].pc \in {"baseline", "move"} /\ ~runs'[r].resolved]_vars

\* the line about to be delivered was printed by the search of an evaluation
\* that has settled already
LateLine ==
  /\ outbox # << >>
  /\ Head(outbox).kind \in {"info", "bestmove"}
  /\ LET q == Head(outbox).req
     IN  /\ q[1] \in Runs
         /\ q[2] <= NumMoves(q[1])
         /\ ~Awaits(q[1], q[2])

\* C13: each evaluation settles exactly once, and a score line or bestmove line
\* of its search that arrives after it has settled changes neither its outcome
\* nor any other state of the page.
C13_LateLineInert ==
  [][(LateLine /\ Deliver) => UNCHANGED << runs, listeners, moveEvaluations >>]_vars

\* the listeners the requests of run r have registered and not removed
ListenersOf(r) == SelectSeq(listeners, LAMBDA l : l.run = r)

\* C14: every search has exactly one listener, registered exactly while its
\* request is unsettled: a run that waits for an evaluation or for getBestMove
\* has the one listener of that request, a run whose requests have all completed
\* has none; so there are never more listeners than running sweeps, and none
\* once every request has completed.
C14_BoundedSubscription ==
  /\ \A r \in Runs :
       IF runs[r].pc \in {"baseline", "move", "best"}
       THEN /\ Len(ListenersOf(r)) = 1
            /\ ListenersOf(r)[1].step = runs[r].i
            /\ ListenersOf(r)[1].kind = (IF runs[r].pc = "best" THEN "best" ELSE "eval")
       ELSE ListenersOf(r) = << >>
  /\ Len(listeners) <= Len(runs)
  /\ (\A r \in Runs : runs[r].pc \in {"done", "failed"}) => listeners = << >>

\* every request of a sweep and its getBestMove have completed, on score lines,
\* a bestmove line and a timeout, and no listener is left
C14_Witness ==
  /\ runs # << >>
  /\ runs[1].pc = "done"
  /\ runs[1].skipped # {}
  /\ EntriesOf(runs[1].results) # {}
  /\ listeners = << >>

\* run r waits for an evaluation whose listener is on the worker behind engineRef
ListensNow(r) ==
  runs[r].pc \in {"baseline", "move"} /\ runs[r].engine = engineRef

\* C15: the outcome of an evaluation is selected by the first line that matches:
\* a score line gives the normalized, negated value of that line; a bestmove line
\* with no score line before it gives the value 0 and the evaluation does not
\* fail; a line that matches neither leaves the request pending with its timer
\* and listener unchanged; and no line changes an outcome decided before.
C15_OutcomeSelection ==
  [][Deliver =>
       \A r \in Runs :
         LET line == Head(outbox)
             a == runs[r]
             b == runs'[r]
         IN  /\ SettlesOnce(a, b)
             /\ ListensNow(r) =>
                  IF line.kind = "info"
                  THEN /\ b.lineFor = a.i /\ b.line.kind = "info"
                       /\ b.value = ResolvedScore(line.type, line.val)
                       /\ a.pc = "baseline" => b.initialScore = b.value
                       /\ a.i \notin b.skipped /\ b.pc # "failed"
                  ELSE IF line.kind = "bestmove"
                       THEN /\ b.lineFor = a.i /\ b.line.kind = "bestmove"
                            /\ b.value = 0
                            /\ a.pc = "baseline" => b.initialScore = 0
                            /\ a.i \notin b.skipped /\ b.pc # "failed"
                       ELSE /\ b = a
                            /\ listeners' = listeners]_vars

\* the baseline settled on a score line and the evaluation of a move on a
\* bestmove line, with the value 0 and without being skipped
C15_Witness ==
  \E r \in Runs :
    /\ runs[r].line.kind = "bestmove"
    /\ runs[r].lineFor \in 1..NumMoves(r)
    /\ runs[r].lineFor \notin runs[r].skipped
    /\ runs[r].value = 0
    /\ runs[r].initialScore # 0

\* the position the request s of run r asks the engine to search
FenOf(r, s) ==
  LET fen == runs[r].fen
      moves == LegalMoves(fen)
  IN  IF s = 0 \/ s > Len(moves) THEN fen
      ELSE ApplyMove(fen, moves[s].from, moves[s].to, "q")

OtherSide(side) == IF side = "w" THEN "b" ELSE "w"

\* the side from whose point of view the value of the last evaluation of run r
\* is, when a score line settled it: the engine scores a position for its side to
\* move, and the negated score is the score for the other side
ValuePov(r) ==
  LET line == runs[r].line
      enginePov == SideToMove(FenOf(line.req[1], line.req[2]))
  IN  IF runs[r].value = 0 - ParsedScore(line.type, line.val)
      THEN OtherSide(enginePov)
      ELSE enginePov

\* C16: every value an evaluation of a sweep returns, for the baseline and for
\* each move, is from the point of view of the side to move in the position the
\* sweep was called with (for an evaluation settled by a score line of its own
\* search).
C16_PerspectiveConsistent ==
  \A r \in Runs :
    ( /\ runs[r].line.kind = "info"
      /\ runs[r].lineFor <= NumMoves(r)
      /\ runs[r].line.req = Req(r, runs[r].lineFor) )
    => ValuePov(r) = SideToMove(runs[r].fen)

\* C17: getBestMove resolves with the move of the bestmove line the engine
\* printed for the go of that request, never with the bestmove line of a search
\* the sweep before it started.
C17_OwnBestmove ==
  \A r \in Runs :
    runs[r].pc = "done" =>
      /\ runs[r].line.kind = "bestmove"
      /\ runs[r].line.req = Req(r, NumMoves(r) + 1)
      /\ runs[r].bestMove = runs[r].line.move

\* the evaluateAllMoves call of run r has returned its table or has failed
CallSettled(r) ==
  r <= Len(runs) /\ (runs[r].returned \/ runs[r].pc = "failed")

\* C18: every evaluateAllMoves call settles, by returning or by failing, whatever
\* the engine does (answering, staying silent, being terminated during the
\* sweep), given that armed timers fire; and it calls evaluatePosition at most
\* once for the baseline and once for each enumerated move.
C18_SweepTerminates ==
  /\ (runs # << >>) ~> CallSettled(1)
  /\ [](\A r \in Runs : runs[r].evals <= 1 + NumMoves(r))

\* the call returned although the worker was terminated during the sweep, after
\* one evaluatePosition call for the baseline and one for each move
C18_Witness ==
  /\ CallSettled(1)
  /\ runs[1].returned
  /\ runs[1].nullEngine
  /\ runs[1].evals = 1 + NumMoves(1)

\* C19: when the position changed while a sweep was running, so that a second
\* sweep started before the first returned, then once both have returned
\* moveEvaluations is the table of the sweep for the latest position.
C19_LatestTableWins ==
  ( /\ Len(runs) = 2
    /\ runs[1].fen # runs[2].fen
    /\ runs[2].fen = chessGame
    /\ runs[1].returned
    /\ runs[2].returned )
  => moveEvaluations = runs[2].results

\* C20: a table holds at most one entry for each pair of an origin and a
\* destination, whatever the enumeration, also when it lists several moves with
\* the same origin and destination that differ only in the promotion piece.
C20_OneEntryPerPair ==
  \A r \in Runs : \A o \in Origins :
    \A j, k \in 1..Len(runs[r].results[o]) :
      runs[r].results[o][j].square = runs[r].results[o][k].square => j = k

=============================================================================
